---- MODULE Spec2Model ----
(***************************************************************************)
(* A model of the backup program: BackupManager.perform_backup             *)
(* (src/backup.py) over an abstract file system, and the configuration     *)
(* persistence of BackupApp (src/main.py).                                  *)
(*                                                                         *)
(* File system.  The source directory S holds a tree over two relative     *)
(* paths: the directory d and the file d/b.  The destination root is a     *)
(* directory outside the source tree; its entries are the backup           *)
(* artifacts, keyed by their names.                                        *)
(***************************************************************************)
EXTENDS Integers, Sequences, FiniteSets, TLC

VARIABLES
    src,        \* the source directory's tree: relative path -> entry
    root,       \* the destination root: "absent" or "dir"
    dest,       \* the destination root's entries: artifact name -> artifact
    clock,      \* datetime.datetime.now(), in whole seconds
    log,        \* the log file: the sequence of lines written so far
    pc,         \* "idle", or "done" right after perform_backup has ended
    last,       \* the call that has just ended: arguments, result, trace
    calls,      \* number of perform_backup calls made so far
    cfgFile,    \* config.json on disk
    cfg,        \* BackupApp.config, the value in memory
    cfgRet      \* how the _load_config that has just ended went

vars == <<src, root, dest, clock, log, pc, last, calls, cfgFile, cfg, cfgRet>>
configVars == <<cfgFile, cfg, cfgRet>>
backupVars == <<src, root, dest, clock, log, pc, last, calls>>

\* ------------------------------------------------------------------ bounds
\* File contents are 1..MaxContent.
MaxContent == 2
\* The clock runs from 0 to MaxClock.
MaxClock == 1
\* At most MaxCalls calls of perform_backup in a behaviour.
MaxCalls == 2

\* ------------------------------------------------------------- file trees
DirD == <<"d">>
FileB == <<"d", "b">>
TreePaths == {DirD, FileB}

DirEntry == [kind |-> "dir", data |-> 0]
FileEntry(c) == [kind |-> "file", data |-> c]

\* The entry a path may hold: d is a directory, d/b a regular file.
EntriesAt(p) == IF p = DirD THEN {DirEntry} ELSE {FileEntry(c) : c \in 1..MaxContent}

\* p is q or lies below q.
Below(p, q) == Len(q) <= Len(p) /\ SubSeq(p, 1, Len(q)) = q

\* A set of paths closed under parents.
Closed(ps) == \A p \in ps : \A q \in TreePaths : (Below(p, q) /\ q # p) => q \in ps

ClosedSubsets(ps) == {x \in SUBSET ps : Closed(x)}

Trees == UNION {{t \in [ps -> UNION {EntriesAt(p) : p \in ps}] :
                    \A p \in ps : t[p] \in EntriesAt(p)} :
                ps \in ClosedSubsets(TreePaths)}

EmptyTree == <<>>

Restrict(t, ps) == [p \in DOMAIN t \cap ps |-> t[p]]

\* The tree without p and everything below it.
Without(t, p) == Restrict(t, {q \in DOMAIN t : ~Below(q, p)})

FilesOf(t) == {p \in DOMAIN t : t[p].kind = "file"}

\* ------------------------------------------------------------- artifacts
Absent == [kind |-> "absent"]
\* A directory artifact and the tree it holds.
DirArtifact(t) == [kind |-> "dir", tree |-> t]
\* A zip artifact and its entries: arcname -> contents.
ZipArtifact(files) == [kind |-> "zip", files |-> files]

At(d, n) == IF n \in DOMAIN d THEN d[n] ELSE Absent
Put(d, n, a) == [x \in DOMAIN d \cup {n} |-> IF x = n THEN a ELSE d[x]]
Del(d, n) == [x \in DOMAIN d \ {n} |-> d[x]]

\* ------------------------------------------------------------------ paths
\* Path arguments are strings: sequences of characters.
PathS == <<"S">>
PathSSlash == <<"S", "/">>
PathMissing == <<"X">>
PathFile == <<"S", "/", "d", "/", "b">>
DestRoot == <<"b", "k">>
\* A destination argument that is no path at all (None).
NoneArg == <<"N", "o", "n", "e">>

SourceArgs == {PathS, PathSSlash, PathMissing, PathFile}
DestArgs == {DestRoot, NoneArg}

LastSlash(p) == IF \E i \in 1..Len(p) : p[i] = "/"
                THEN CHOOSE i \in 1..Len(p) : p[i] = "/" /\ \A j \in (i+1)..Len(p) : p[j] # "/"
                ELSE 0

\* os.path.basename: what follows the last slash.
Basename(p) == SubSeq(p, LastSlash(p) + 1, Len(p))

\* The components of a path string, split at the slashes.
RECURSIVE Split(_)
Split(p) ==
    IF LastSlash(p) = 0 THEN <<p>>
    ELSE Append(Split(SubSeq(p, 1, LastSlash(p) - 1)), Basename(p))

\* The path below its first component that a path string names (a trailing
\* slash adds nothing; every name is one character long).
RelPath(p) ==
    LET named == SelectSeq(Tail(Split(p)), LAMBDA c : c # <<>>)
    IN  [i \in 1..Len(named) |-> named[i][1]]

\* Each source argument, resolved: its first component and the path below it.
Resolved == [p \in SourceArgs |-> [top |-> Split(p)[1], rel |-> RelPath(p)]]

\* The node a source argument names: "dir", "file" or "missing".
NodeKind(p) ==
    IF Resolved[p].top # PathS THEN "missing"
    ELSE IF Resolved[p].rel = <<>> THEN "dir"
    ELSE IF Resolved[p].rel \in DOMAIN src THEN src[Resolved[p].rel].kind
    ELSE "missing"

\* The tree os.walk and copytree see below a source argument.
SourceTree(p) == IF NodeKind(p) = "dir" THEN src ELSE EmptyTree

\* -------------------------------------------------------------------- log
\* A log line: its level and message, and for the completion line the status,
\* the file count and the error message ("" when there is none).
Line(level, msg) == [level |-> level, msg |-> msg, status |-> "", files |-> 0, error |-> ""]

CompletionLine(status, files_count, error_message) ==
    [level |-> "INFO", msg |-> "Backup completed", status |-> status,
     files |-> files_count, error |-> error_message]

\* ------------------------------------------------------ the environment
\* What the file system does to one call.  kind: "none"; "cleanup" (deleting the
\* old artifact is refused partway, the entries in keep remain); "mkdir"
\* (creating the artifact is refused); "read" (the source entry at is
\* unreadable).
Env(kind, at, keep) == [kind |-> kind, at |-> at, keep |-> keep]

NoFault == Env("none", FileB, {})

\* The choices that make a difference to a call with this old artifact.
EnvsFor(prior) ==
    {NoFault, Env("mkdir", FileB, {})}
    \cup {Env("read", p, {}) : p \in DOMAIN src}
    \cup (IF prior.kind = "dir"
          THEN {Env("cleanup", FileB, k) : k \in ClosedSubsets(DOMAIN prior.tree)}
          ELSE IF prior.kind = "zip" THEN {Env("cleanup", FileB, {})}
          ELSE {})

\* ---------------------------------------------------- backup.py, the steps
\* A validation that only asks whether the source exists.
ValidateSourceExists(source_folder) ==
    IF NodeKind(source_folder) = "missing" THEN "Source folder does not exist" ELSE "ok"

\* os.path.exists and os.path.isdir of the source (backup.py:111, 115).
ValidateSource(source_folder) ==
    IF NodeKind(source_folder) = "missing" THEN "Source folder does not exist"
    ELSE IF NodeKind(source_folder) # "dir" THEN "Source path is not a directory"
    ELSE "ok"

\* _generate_backup_folder_name: f"{base_name}_{timestamp}_{version}".
GenerateBackupFolderName(base_name) ==
    [base |-> base_name, ts |-> clock, version |-> "v1.0.0"]

\* A destination path that never gets the ".zip" suffix.
FullDestinationPathNoExt(name, compress) ==
    [base |-> name.base, ts |-> name.ts, version |-> name.version, ext |-> ""]

\* os.path.join(base_destination_folder, name), plus ".zip" when compressing:
\* the artifact's name inside the destination root.
FullDestinationPath(name, compress) ==
    [base |-> name.base, ts |-> name.ts, version |-> name.version,
     ext |-> IF compress THEN ".zip" ELSE ""]

\* The files os.walk reaches below the source: a directory that cannot be
\* listed is skipped without an error (os.walk's onerror is None).
WalkFiles(t, env) ==
    {p \in FilesOf(t) : ~(env.kind = "read" /\ env.at \in DOMAIN t /\ t[env.at].kind = "dir"
                          /\ Below(p, env.at))}

\* _count_files_in_folder: the number of files os.walk reaches.
CountFilesInFolder(source_folder, env) ==
    Cardinality(WalkFiles(SourceTree(source_folder), env))

\* A copy that creates only the directories that hold files.
MergeFilesOnly(old, new) ==
    LET kept == {p \in DOMAIN new : \E q \in FilesOf(new) : Below(q, p)}
    IN  [p \in DOMAIN old \cup kept |-> IF p \in kept THEN new[p] ELSE old[p]]

\* shutil.copytree(..., dirs_exist_ok=True): the source's entries are written
\* over what the destination directory holds.
Merge(old, new) ==
    [p \in DOMAIN old \cup DOMAIN new |-> IF p \in DOMAIN new THEN new[p] ELSE old[p]]

\* A cleanup that leaves the old artifact where it is.
CleanupSkipped(d, path, env) == [dest |-> d, lines |-> <<>>, error |-> ""]

\* A cleanup that empties the destination root.
CleanupRoot(d, path, env) == [dest |-> <<>>, lines |-> <<>>, error |-> ""]

\* The cleanup of an artifact already at the path (backup.py:136-142).
Cleanup(d, path, env) ==
    IF At(d, path).kind = "dir" THEN
        IF env.kind = "cleanup"
        THEN [dest |-> Put(d, path, DirArtifact(Restrict(d[path].tree, env.keep))),
              lines |-> <<>>, error |-> "Permission"]
        ELSE [dest |-> Del(d, path),
              lines |-> <<Line("WARNING", "Existing backup folder deleted")>>, error |-> ""]
    ELSE IF At(d, path).kind = "zip" THEN
        IF env.kind = "cleanup"
        THEN [dest |-> d, lines |-> <<>>, error |-> "Permission"]
        ELSE [dest |-> Del(d, path),
              lines |-> <<Line("WARNING", "Existing ZIP backup file deleted")>>, error |-> ""]
    ELSE [dest |-> d, lines |-> <<>>, error |-> ""]

\* _copy_folder_contents (backup.py:56-75).
CopyFolderContents(d, r, source_folder, path, env) ==
    LET created == At(d, path).kind = "absent"
        d1 == IF created THEN Put(d, path, DirArtifact(EmptyTree)) ELSE d
        lines == IF created THEN <<Line("INFO", "Destination folder created")>> ELSE <<>>
        old == d1[path]
    IN  IF created /\ env.kind = "mkdir" THEN
            [dest |-> d, root |-> r, lines |-> <<>>, error |-> "Permission", success |-> FALSE]
        ELSE IF NodeKind(source_folder) # "dir" \/ old.kind # "dir" THEN
            \* copytree: NotADirectoryError / FileExistsError
            [dest |-> d1, root |-> "dir", lines |-> lines, error |-> "Unexpected", success |-> FALSE]
        ELSE IF env.kind = "read" /\ env.at \in DOMAIN src THEN
            \* copytree goes on past an entry it cannot copy and raises at the end.
            [dest |-> Put(d1, path, DirArtifact(Merge(old.tree, Without(src, env.at)))),
             root |-> "dir", lines |-> lines, error |-> "Shutil", success |-> FALSE]
        ELSE
            [dest |-> Put(d1, path, DirArtifact(Merge(old.tree, src))),
             root |-> "dir", lines |-> lines, error |-> "", success |-> TRUE]

\* _zip_folder_contents (backup.py:77-100).  os.walk gives the files of a
\* directory before those of its subdirectories.
ZipFolderContents(d, r, source_folder, path, env) ==
    LET t == SourceTree(source_folder)
        lines == IF r = "absent" THEN <<Line("INFO", "ZIP output directory created")>> ELSE <<>>
        walk == WalkFiles(t, env)
        failing == env.kind = "read" /\ env.at \in walk
        written == IF failing THEN {p \in walk : Len(p) < Len(env.at)} ELSE walk
        archive == ZipArtifact([p \in written |-> t[p].data])
    IN  IF env.kind = "mkdir" THEN
            [dest |-> d, root |-> r, lines |-> <<>>, error |-> "Permission", success |-> FALSE]
        ELSE IF At(d, path).kind = "dir" THEN
            \* zipfile.ZipFile(path, 'w') on a directory: IsADirectoryError
            [dest |-> d, root |-> "dir", lines |-> lines, error |-> "Unexpected", success |-> FALSE]
        ELSE IF failing THEN
            \* zipf.write raises; leaving the with block closes the archive.
            [dest |-> Put(d, path, archive), root |-> "dir", lines |-> lines,
             error |-> "Permission", success |-> FALSE]
        ELSE
            [dest |-> Put(d, path, archive), root |-> "dir", lines |-> lines,
             error |-> "", success |-> TRUE]

\* The body of the try block (backup.py:134-156).
TryBody(d, r, source_folder, path, compress, env) ==
    LET c == Cleanup(d, path, env)
        w == IF compress THEN ZipFolderContents(c.dest, r, source_folder, path, env)
             ELSE CopyFolderContents(c.dest, r, source_folder, path, env)
        n == CountFilesInFolder(source_folder, env)
    IN  IF c.error # "" THEN
            [dest |-> c.dest, root |-> r, lines |-> c.lines, error |-> c.error,
             success |-> FALSE, files_count |-> 0, steps |-> <<"cleanup">>]
        ELSE IF ~w.success THEN
            [dest |-> w.dest, root |-> w.root, lines |-> c.lines \o w.lines, error |-> w.error,
             success |-> FALSE, files_count |-> 0,
             steps |-> <<"cleanup", IF compress THEN "archive" ELSE "copy">>]
        ELSE
            [dest |-> w.dest, root |-> w.root,
             lines |-> c.lines \o w.lines
                       \o <<Line("INFO", IF compress THEN "ZIP compression successful"
                                         ELSE "Copy successful"),
                            [Line("INFO", "Number of files backed up") EXCEPT !.files = n]>>,
             error |-> "", success |-> TRUE, files_count |-> n,
             steps |-> <<"cleanup", IF compress THEN "archive" ELSE "copy", "count">>]

\* Except clauses that also remove what the failed step has written.
ExceptClausesRollback(out, path) ==
    IF out.error = "" THEN out
    ELSE [out EXCEPT !.dest = Del(@, path), !.lines = Append(@, Line("ERROR", out.error))]

\* The except clauses (backup.py:158-169): the message is logged.
ExceptClauses(out, path) ==
    IF out.error = "" THEN out
    ELSE [out EXCEPT !.lines = Append(@, Line("ERROR", out.error))]

\* The finally clause (backup.py:170-183): the completion line, then the return.
Finally(out) ==
    [out EXCEPT !.lines = Append(@, CompletionLine(IF out.success THEN "SUCCESS" ELSE "FAILED",
                                                   out.files_count, out.error))]

NoPath == [base |-> <<>>, ts |-> 0, version |-> "", ext |-> ""]
\* No call has just ended.
NoCall == [source |-> <<>>, destination |-> <<>>, compress |-> FALSE, ret |-> "",
           path |-> NoPath, error |-> "", steps |-> <<>>, env |-> NoFault,
           written |-> Absent, before |-> [src |-> <<>>, dest |-> <<>>, root |-> "", log |-> <<>>]]

\* ---------------------------------------------------------------- actions
\* perform_backup (backup.py:102-183), from the call to its end.
PerformBackup(source_folder, base_destination_folder, compress) ==
    /\ pc = "idle"
    /\ calls < MaxCalls
    /\ pc' = "done"
    /\ calls' = calls + 1
    /\ UNCHANGED <<src, clock, configVars>>
    /\ LET call == [NoCall EXCEPT !.source = source_folder,
                                  !.destination = base_destination_folder,
                                  !.compress = compress,
                                  !.before = [src |-> src, dest |-> dest, root |-> root,
                                               log |-> log]]
           valid == ValidateSource(source_folder)
           path == FullDestinationPath(GenerateBackupFolderName(Basename(source_folder)), compress)
       IN  IF valid # "ok" THEN
               \* logged, return False
               /\ log' = Append(log, Line("ERROR", valid))
               /\ UNCHANGED <<dest, root>>
               /\ last' = [call EXCEPT !.ret = "False"]
           ELSE IF base_destination_folder = NoneArg THEN
               \* os.path.join (backup.py:123) raises TypeError before the try
               /\ UNCHANGED <<dest, root, log>>
               /\ last' = [call EXCEPT !.ret = "raised", !.steps = <<"name">>]
           ELSE \E env \in EnvsFor(At(dest, path)) :
               LET body == TryBody(dest, root, source_folder, path, compress, env)
                   out == Finally(ExceptClauses(body, path))
               IN  /\ dest' = out.dest
                   /\ root' = out.root
                   /\ log' = log \o <<Line("INFO", "Starting backup")>> \o out.lines
                   /\ last' = [call EXCEPT !.ret = IF out.success THEN "True" ELSE "False",
                                           !.path = path, !.error = out.error,
                                           !.steps = <<"name">> \o out.steps,
                                           !.env = env,
                                           !.written = At(body.dest, path)]

\* The caller takes the result (main.py:141-148) and the program is idle again.
Return ==
    /\ pc = "done"
    /\ pc' = "idle"
    /\ last' = NoCall
    /\ UNCHANGED <<src, root, dest, clock, log, calls, configVars>>

\* Time passes.
Tick ==
    /\ pc = "idle"
    /\ clock < MaxClock
    /\ clock' = clock + 1
    /\ UNCHANGED <<src, root, dest, log, pc, last, calls, configVars>>

\* The user edits the source folder between backups.
WriteFile(p, c) ==
    /\ pc = "idle"
    /\ Closed(DOMAIN src \cup {p})
    /\ src' = Put(src, p, FileEntry(c))
    /\ UNCHANGED <<root, dest, clock, log, pc, last, calls, configVars>>

MakeDir ==
    /\ pc = "idle"
    /\ DirD \notin DOMAIN src
    /\ src' = Put(src, DirD, DirEntry)
    /\ UNCHANGED <<root, dest, clock, log, pc, last, calls, configVars>>

Remove(p) ==
    /\ pc = "idle"
    /\ p \in DOMAIN src
    /\ src' = Without(src, p)
    /\ UNCHANGED <<root, dest, clock, log, pc, last, calls, configVars>>

\* ------------------------------------------------- main.py, configuration
\* A JSON token: a string, or a literal (true, false, a number).
JsonString(s) == [type |-> "string", text |-> s]
JsonLiteral(s) == [type |-> "literal", text |-> s]

FolderValues == {"", "S", "bk"}

\* The configuration records the program can hold.
Configs == [source_folder : FolderValues, destination_folder : FolderValues,
            compress_backup : BOOLEAN, backup_interval_days : {7}]

Digits == <<"0", "1", "2", "3", "4", "5", "6", "7", "8", "9">>
\* The number a one-digit literal denotes.
JsonInt(s) == (CHOOSE i \in 1..Len(Digits) : Digits[i] = s) - 1

\* json.dump of a configuration: the members in insertion order.
JsonDump(c) ==
    <<<<"source_folder", JsonString(c.source_folder)>>,
      <<"destination_folder", JsonString(c.destination_folder)>>,
      <<"compress_backup", JsonLiteral(IF c.compress_backup THEN "true" ELSE "false")>>,
      <<"backup_interval_days", JsonLiteral(Digits[c.backup_interval_days + 1])>>>>

\* The value json.load gives for the member called key.
JsonMember(text, key) == (CHOOSE i \in 1..Len(text) : text[i][1] = key)

\* json.load of an object written by json.dump.
JsonLoad(text) ==
    [source_folder |-> text[JsonMember(text, "source_folder")][2].text,
     destination_folder |-> text[JsonMember(text, "destination_folder")][2].text,
     compress_backup |-> text[JsonMember(text, "compress_backup")][2].text = "true",
     backup_interval_days |-> JsonInt(text[JsonMember(text, "backup_interval_days")][2].text)]

\* What config.json can be: absent; an object's text; text that is no JSON
\* (empty, truncated); bytes that are no text in the reader's encoding; JSON
\* text of a value other than this program's object (a list).
FileAbsent == [kind |-> "absent", text |-> <<>>]
FileObject(text) == [kind |-> "object", text |-> text]
FileMalformed == [kind |-> "malformed", text |-> <<>>]
FileUndecodable == [kind |-> "undecodable", text |-> <<>>]
FileList == [kind |-> "list", text |-> <<>>]

\* BackupApp.config before _load_config has run, and the list json.load gives
\* for FileList.
NoConfig == [kind |-> "unset"]
ListConfig == [kind |-> "list"]

NoLoad == [how |-> "", before |-> FileAbsent]

\* _create_default_config's record (main.py:39-44).
DefaultConfig == [source_folder |-> "", destination_folder |-> "",
                  compress_backup |-> FALSE, backup_interval_days |-> 7]

\* _save_config (main.py:48-54): the file is rewritten; when the write is
\* refused the error is shown and swallowed, and the file stays as it was.
SaveConfig(c, writable) == IF writable THEN FileObject(JsonDump(c)) ELSE cfgFile

\* BackupApp.__init__ calling _load_config (main.py:25-35).
LoadConfig(writable) ==
    /\ cfgRet.how = ""
    /\ cfg = NoConfig
    /\ IF cfgFile.kind = "absent" \/ cfgFile.kind = "malformed" THEN
           \* not os.path.exists, or json.JSONDecodeError: _create_default_config
           /\ cfg' = DefaultConfig
           /\ cfgFile' = SaveConfig(DefaultConfig, writable)
           /\ cfgRet' = [how |-> "returned", before |-> cfgFile]
       ELSE IF cfgFile.kind = "undecodable" THEN
           \* UnicodeDecodeError is no JSONDecodeError: it leaves _load_config
           /\ UNCHANGED <<cfg, cfgFile>>
           /\ cfgRet' = [how |-> "raised", before |-> cfgFile]
       ELSE
           /\ cfg' = IF cfgFile.kind = "list" THEN ListConfig ELSE JsonLoad(cfgFile.text)
           /\ UNCHANGED cfgFile
           /\ cfgRet' = [how |-> "returned", before |-> cfgFile]
    /\ UNCHANGED backupVars

\* The constructor has ended: the window is up, or the program has died.
Loaded ==
    /\ cfgRet.how # ""
    /\ cfgRet' = NoLoad
    /\ cfg' = IF cfgRet.how = "returned" /\ cfg # ListConfig THEN cfg ELSE NoConfig
    /\ UNCHANGED <<cfgFile, backupVars>>

\* _save_preferences_from_gui (main.py:62-67).
SavePreferencesFromGui(source, destination, compress, writable) ==
    /\ cfgRet.how = ""
    /\ cfg \in Configs
    /\ cfg' = [cfg EXCEPT !.source_folder = source, !.destination_folder = destination,
                          !.compress_backup = compress]
    /\ cfgFile' = SaveConfig(cfg', writable)
    /\ UNCHANGED <<cfgRet, backupVars>>

\* The program is closed.
Quit ==
    /\ cfgRet.how = ""
    /\ cfg \in Configs
    /\ cfg' = NoConfig
    /\ UNCHANGED <<cfgFile, cfgRet, backupVars>>

\* While the program is not running, config.json is deleted or damaged.
Damage(f) ==
    /\ cfgRet.how = ""
    /\ cfg = NoConfig
    /\ cfgFile # f
    /\ cfgFile' = f
    /\ UNCHANGED <<cfg, cfgRet, backupVars>>

\* ------------------------------------------------------- specifications
\* A BackupManager has been constructed; no backup has been made yet, so the
\* destination root is not there.
InitBackup ==
    /\ src \in Trees
    /\ root = "absent"
    /\ dest = <<>>
    /\ clock = 0
    /\ log = <<Line("INFO", "BackupManager initialized.")>>
    /\ pc = "idle"
    /\ last = NoCall
    /\ calls = 0

InitConfig ==
    /\ cfgFile = FileAbsent
    /\ cfg = NoConfig
    /\ cfgRet = NoLoad

Init == InitBackup /\ InitConfig

Next ==
    \/ \E s \in SourceArgs, d \in DestArgs, c \in BOOLEAN : PerformBackup(s, d, c)
    \/ Return
    \/ Tick
    \/ \E c \in 1..MaxContent : WriteFile(FileB, c)
    \/ MakeDir
    \/ \E p \in TreePaths : Remove(p)

\* The backup manager over the file system.
Spec == Init /\ [][Next]_vars

InitC ==
    /\ src = EmptyTree
    /\ root = "absent"
    /\ dest = <<>>
    /\ clock = 0
    /\ log = <<>>
    /\ pc = "idle"
    /\ last = NoCall
    /\ calls = 0
    /\ InitConfig

NextC ==
    \/ \E w \in BOOLEAN : LoadConfig(w)
    \/ Loaded
    \/ \E s \in FolderValues, d \in FolderValues, c \in BOOLEAN, w \in BOOLEAN :
           SavePreferencesFromGui(s, d, c, w)
    \/ Quit
    \/ \E f \in {FileAbsent, FileMalformed, FileUndecodable, FileList} : Damage(f)

\* The configuration file across runs of the application.
SpecConfig == InitC /\ [][NextC]_vars

\* ----------------------------------------------------------- properties
\* The artifact the call that has just ended was to write, and what was at
\* that path before the call.
Artifact == At(dest, last.path)
Prior == At(last.before.dest, last.path)

\* The call that has just ended got past the source validation.
PassedValidation == pc = "done" /\ NodeKind(last.source) = "dir"

\* b is the last component of the path string s: what follows its last slash.
IsLastComponent(b, s) ==
    /\ Len(b) <= Len(s)
    /\ SubSeq(s, Len(s) - Len(b) + 1, Len(s)) = b
    /\ \A i \in 1..Len(b) : b[i] # "/"
    /\ Len(b) = Len(s) \/ s[Len(s) - Len(b)] = "/"

C2_ArchiveMatchesSource ==
    (pc = "done" /\ last.ret = "True" /\ last.compress) =>
        /\ Artifact.kind = "zip"
        /\ DOMAIN Artifact.files = FilesOf(src)
        /\ \A p \in FilesOf(src) : Artifact.files[p] = src[p].data

\* C3: a successful run onto a path that already held an artifact leaves at
\* that path only what this run wrote, nothing of the earlier artifact, and no
\* second artifact beside it.
C3_OverwriteOnly ==
    (pc = "done" /\ last.ret = "True" /\ Prior # Absent) =>
        /\ DOMAIN dest = DOMAIN last.before.dest
        /\ IF last.compress
           THEN /\ Artifact.kind = "zip"
                /\ \A p \in DOMAIN Artifact.files :
                       p \in FilesOf(src) /\ Artifact.files[p] = src[p].data
           ELSE /\ Artifact.kind = "dir"
                /\ \A p \in DOMAIN Artifact.tree :
                       p \in DOMAIN src /\ Artifact.tree[p] = src[p]

C3_Witness ==
    /\ pc = "done" /\ last.ret = "True"
    /\ Prior.kind = "dir"
    /\ FileB \in DOMAIN Prior.tree
    /\ FileB \notin DOMAIN src

\* C4: a source path that does not exist or is no directory makes
\* perform_backup return False with the source and the destination untouched
\* and without a cleanup, copy or archive step.
C4_InvalidSourceNoEffect ==
    (pc = "done" /\ NodeKind(last.source) # "dir") =>
        /\ last.ret = "False"
        /\ src = last.before.src
        /\ dest = last.before.dest
        /\ root = last.before.root
        /\ \A i \in DOMAIN last.steps : last.steps[i] \notin {"cleanup", "copy", "archive"}

C4_Witness ==
    /\ pc = "done"
    /\ NodeKind(last.source) = "file"
    /\ last.destination = DestRoot
    /\ last.ret = "False"

\* C5: perform_backup never lets an exception out: every call ends by
\* returning True or False.
C5_NeverRaises == pc = "done" => last.ret \in {"True", "False"}

\* C6: every artifact a call writes is the entry
\* <basename of the source>_<time of the call>_v1.0.0 of the destination root,
\* with the suffix .zip exactly when compress is set, and an entry is an
\* archive file exactly when it has that suffix, a directory otherwise.
C6_ArtifactLocation ==
    pc = "done" =>
        /\ \A n \in DOMAIN dest :
               /\ dest[n].kind \in {"dir", "zip"}
               /\ dest[n].kind = "zip" <=> n.ext = ".zip"
        /\ \A n \in DOMAIN dest :
               dest[n] # At(last.before.dest, n) =>
                   /\ IsLastComponent(n.base, last.source)
                   /\ n.ts = clock
                   /\ n.version = "v1.0.0"
                   /\ n.ext = (IF last.compress THEN ".zip" ELSE "")

C6_Witness ==
    /\ pc = "done" /\ last.ret = "True" /\ last.compress
    /\ last.source = PathSSlash
    /\ Artifact.kind = "zip"
    /\ Prior = Absent

\* C7: _load_config replaces a corrupted or absent configuration file by the
\* defaults, on disk and in its result, and returns an uncorrupted one as it
\* is, leaving the file alone.
C7_LoadConfig ==
    cfgRet.how # "" =>
        /\ cfgRet.how = "returned"
        /\ IF cfgRet.before.kind \in {"absent", "malformed", "undecodable"}
           THEN /\ cfg = DefaultConfig
                /\ cfgFile.kind = "object"
                /\ JsonLoad(cfgFile.text) = DefaultConfig
           ELSE /\ cfgFile = cfgRet.before
                /\ cfg = (IF cfgRet.before.kind = "list" THEN ListConfig
                          ELSE JsonLoad(cfgRet.before.text))

\* C8: every call that passes the source validation appends to the log, as the
\* last line it writes, exactly one completion line; its status agrees with the
\* returned value, its file count is the number of files in the source on
\* success and 0 on failure, it carries an error message exactly when an
\* exception was caught; and the lines already in the log stay as they were.
C8_CompletionLine ==
    PassedValidation =>
        LET old == last.before.log
            n == Len(log)
        IN  /\ n > Len(old)
            /\ SubSeq(log, 1, Len(old)) = old
            /\ log[n].msg = "Backup completed"
            /\ Cardinality({i \in (Len(old) + 1)..n : log[i].msg = "Backup completed"}) = 1
            /\ last.ret \in {"True", "False"}
            /\ log[n].status = (IF last.ret = "True" THEN "SUCCESS" ELSE "FAILED")
            /\ log[n].files = (IF last.ret = "True" THEN Cardinality(FilesOf(src)) ELSE 0)
            /\ log[n].error # "" <=> last.error # ""

\* The call that has just ended failed in its copy or archive step.
WriteStepFailed ==
    /\ pc = "done"
    /\ Len(last.steps) > 0
    /\ last.steps[Len(last.steps)] \in {"copy", "archive"}

\* C9: a call whose copy or archive step fails makes that one attempt only,
\* leaves what the attempt wrote where it is, does not bring back the artifact
\* the cleanup deleted, and returns False.
C9_SingleAttempt ==
    WriteStepFailed =>
        /\ last.ret = "False"
        /\ Cardinality({i \in DOMAIN last.steps : last.steps[i] \in {"copy", "archive"}}) = 1
        /\ Artifact = last.written
        /\ last.env.kind = "read" => Artifact # Absent
        /\ last.env.kind = "mkdir" => Artifact = Absent

C9_Witness ==
    /\ WriteStepFailed
    /\ ~last.compress
    /\ last.env.kind = "read"
    /\ Prior.kind = "dir"
    /\ FileB \in DOMAIN Prior.tree
    /\ Artifact = DirArtifact(Without(src, FileB))

\* C10: a call changes nothing but the entry at its own destination path (and
\* the destination root it may have had to create): every other entry of the
\* destination root and the source tree are as they were before the call.
C10_Frame ==
    pc = "done" =>
        /\ src = last.before.src
        /\ \A n \in DOMAIN dest \cup DOMAIN last.before.dest :
               n # last.path => At(dest, n) = At(last.before.dest, n)

C10_Witness ==
    /\ pc = "done" /\ last.ret = "True"
    /\ Artifact # Absent
    /\ \E n \in DOMAIN dest : n # last.path /\ dest[n] = At(last.before.dest, n)

====
